---------------------------- MODULE Spec2Model ----------------------------
(***************************************************************************)
(* A model of src/streamlit_app.py: the script that loads the two sheets   *)
(* of the house-price / earnings workbook, reshapes and joins them,        *)
(* derives the year-over-year percent change, filters by the sidebar       *)
(* selection and displays aggregate statistics.                            *)
(*                                                                         *)
(* Numbers.  Prices and incomes are integers.  A percentage is kept in     *)
(* hundredths of a percent (10.0% is 1000), which is exactly what          *)
(* round(x, 2) retains; a float that is not a finite number is tagged:     *)
(*   [k |-> "num", v |-> h]   the finite value h / 100                     *)
(*   [k |-> "nan", v |-> 0]   NaN (pandas' "undefined")                    *)
(*   [k |-> "inf", v |-> 0]   +infinity      [k |-> "ninf", ...] -infinity *)
(* Binary floating point is modelled by exact arithmetic followed by       *)
(* round-half-even; the price values used have no exact ties.              *)
(*                                                                         *)
(* A column label is [pre, yr]: pre says whether the text starts with      *)
(* 'Year ending Sep ', yr is the number its digits spell.                  *)
(***************************************************************************)
EXTENDS Integers, Sequences, FiniteSets, TLC

\* ------------------------------------------------------------- bounds
\* Number of year columns a sheet may have (years 2000 .. 1999 + NumYears).
NumYears == 3
\* Number of times the script may be re-executed after its first run.
MaxRuns == 2

Codes == {"E1", "E2"}
Names == {"London", "Wales"}
Years == 2000..(1999 + NumYears)
PriceVals == {0, 50, 99, 100, 110}

\* ------------------------------------------------------------- floats
NaN == [k |-> "nan", v |-> 0]
Inf == [k |-> "inf", v |-> 0]
NegInf == [k |-> "ninf", v |-> 0]
Num(h) == [k |-> "num", v |-> h]
IsFinite(x) == x.k = "num"

Abs(n) == IF n < 0 THEN -n ELSE n

\* n / d rounded to the nearest integer, ties to even (d > 0).
RoundDiv(n, d) ==
    LET q == n \div d
        r == n % d
    IN  IF 2 * r < d THEN q
        ELSE IF 2 * r > d THEN q + 1
        ELSE IF q % 2 = 0 THEN q ELSE q + 1

\* round(x, 2) of x = (cur / prev - 1) * 100, as hundredths of a percent.
PctChangeZeroed(prev, cur) ==
    IF prev = 0 THEN Num(0)
    ELSE IF prev > 0 THEN Num(RoundDiv((cur - prev) * 10000, prev))
    ELSE Num(RoundDiv((prev - cur) * 10000, -prev))

PctChangeTruncated(prev, cur) ==
    IF prev = 0
    THEN (IF cur > 0 THEN Inf ELSE IF cur < 0 THEN NegInf ELSE NaN)
    ELSE Num(((Abs(cur - prev) * 10000) \div Abs(prev))
             * (IF (cur - prev < 0) = (prev < 0) THEN 1 ELSE -1))

PctChange(prev, cur) ==
    IF prev = 0
    THEN (IF cur > 0 THEN Inf ELSE IF cur < 0 THEN NegInf ELSE NaN)
    ELSE IF prev > 0 THEN Num(RoundDiv((cur - prev) * 10000, prev))
    ELSE Num(RoundDiv((prev - cur) * 10000, -prev))

\* ------------------------------------------------ sequences of floats
RECURSIVE SumV(_)
SumV(s) == IF s = <<>> THEN 0 ELSE Head(s).v + SumV(Tail(s))

DropNaN(s) == SelectSeq(s, LAMBDA x : x.k # "nan")
HasKind(s, kind) == \E i \in 1..Len(s) : s[i].k = kind

\* Series.mean(): NaN skipped; the finite mean is kept to the 2 decimals
\* the script displays.
Mean(s) ==
    LET d == DropNaN(s)
    IN  IF d = <<>> THEN NaN
        ELSE IF HasKind(d, "inf") /\ HasKind(d, "ninf") THEN NaN
        ELSE IF HasKind(d, "inf") THEN Inf
        ELSE IF HasKind(d, "ninf") THEN NegInf
        ELSE Num(RoundDiv(SumV(d), Len(d)))

\* x < y on floats; false when either is NaN.
Less(x, y) ==
    /\ x.k # "nan" /\ y.k # "nan"
    /\ \/ x.k = "ninf" /\ y.k # "ninf"
       \/ y.k = "inf" /\ x.k # "inf"
       \/ x.k = "num" /\ y.k = "num" /\ x.v < y.v

\* Exact comparison of the means of two float sequences (mean(s) < mean(t)).
MeanLess(s, t) ==
    LET ds == DropNaN(s)
        dt == DropNaN(t)
    IN  IF IsFinite(Mean(s)) /\ IsFinite(Mean(t))
        THEN SumV(ds) * Len(dt) < SumV(dt) * Len(ds)
        ELSE Less(Mean(s), Mean(t))

SetMin(S) == CHOOSE x \in S : \A y \in S : x <= y
SetMax(S) == CHOOSE x \in S : \A y \in S : y <= x

\* Series.idxmax() / idxmin(): the first position holding the largest
\* (smallest) value that is not NaN; 0 when every value is NaN (pandas then
\* returns NaN or raises, by version, and .loc[NaN] raises in the former).
IdxMax(s) ==
    LET D == {i \in 1..Len(s) : s[i].k # "nan"}
    IN  IF D = {} THEN 0
        ELSE SetMin({i \in D : \A j \in D : ~Less(s[i], s[j])})

IdxMin(s) ==
    LET D == {i \in 1..Len(s) : s[i].k # "nan"}
    IN  IF D = {} THEN 0
        ELSE SetMin({i \in D : \A j \in D : ~Less(s[j], s[i])})

\* Series.max(): NaN skipped, NaN when nothing is left.
MaxV(s) == IF IdxMax(s) = 0 THEN NaN ELSE s[IdxMax(s)]

\* d * d = SqHi(d) * 10000 + SqLo(d), with 0 <= SqLo(d) < 10000: the square
\* of a difference of hundredths, in whole squared percents and the rest.
SqHi(d) ==
    LET a == Abs(d) \div 100
        b == Abs(d) % 100
    IN  a * a + ((200 * a * b + b * b) \div 10000)

SqLo(d) ==
    LET a == Abs(d) \div 100
        b == Abs(d) % 100
    IN  (200 * a * b + b * b) % 10000

RECURSIVE SumSqHi(_, _)
SumSqHi(P, s) ==
    IF P = {} THEN 0
    ELSE LET p == CHOOSE q \in P : TRUE
         IN  SqHi(s[p[1]].v - s[p[2]].v) + SumSqHi(P \ {p}, s)

RECURSIVE SumSqLo(_, _)
SumSqLo(P, s) ==
    IF P = {} THEN 0
    ELSE LET p == CHOOSE q \in P : TRUE
         IN  SqLo(s[p[1]].v - s[p[2]].v) + SumSqLo(P \ {p}, s)

\* Series.std() (ddof = 1), recorded by the whole part of its square, the
\* sample variance in squared percent: the sum over the pairs i < j of
\* (x[i] - x[j])^2, divided by n (n - 1).  NaN with fewer than two values
\* that are not NaN, or with a value that is not finite.
StdSquared(s) ==
    LET d == DropNaN(s)
        n == Len(d)
        P == {p \in (1..n) \X (1..n) : p[1] < p[2]}
    IN  IF n < 2 \/ HasKind(d, "inf") \/ HasKind(d, "ninf") THEN NaN
        ELSE Num((SumSqHi(P, d) + (SumSqLo(P, d) \div 10000)) \div (n * (n - 1)))

\* Series.mode().iloc[0]: the smallest of the most frequent values that are
\* not NaN; NaN here stands for the empty result (iloc[0] then raises).
Count(s, x) == Cardinality({i \in 1..Len(s) : s[i] = x})
Mode0(s) ==
    LET d == DropNaN(s)
        top == {i \in 1..Len(d) : \A j \in 1..Len(d) : Count(d, d[j]) <= Count(d, d[i])}
    IN  IF d = <<>> THEN NaN
        ELSE d[CHOOSE i \in top : \A j \in top : ~Less(d[j], d[i])]

\* ------------------------------------------------------------- tables
\* str.replace('Year ending Sep ', '', regex=False) on one column label.
StripPrefix(label) == [label EXCEPT !.pre = FALSE]

\* The assignment to df.columns: every label of the table is replaced.
RenameColumns(t) == [t EXCEPT !.cols = [j \in DOMAIN t.cols |-> StripPrefix(t.cols[j])]]

\* DataFrame.melt(id_vars = ['Code', 'Name']): one record per (column, row),
\* column by column; the Year of a record is the column's label as it stands.
Melt(t) ==
    LET nr == Len(t.rows)
    IN  [n \in 1..(Len(t.cols) * nr) |->
            LET j == ((n - 1) \div nr) + 1
                i == ((n - 1) % nr) + 1
            IN  [Code |-> t.rows[i].Code, Name |-> t.rows[i].Name,
                 Year |-> t.cols[j], value |-> t.rows[i].cells[j]]]

\* astype(float) on a cell that holds a number or the text of a number.
AsFloat(cell) == [txt |-> FALSE, v |-> cell.v]

MeltedIncome(t) ==
    LET m == Melt(t)
    IN  [n \in DOMAIN m |-> [m[n] EXCEPT !.value = AsFloat(m[n].value)]]

\* merge(how = 'inner', on = ['Code', 'Name', 'Year']): for each left record,
\* in order, one output record per right record with the same key.
JoinRow(l, r) ==
    [Code |-> l.Code, Name |-> l.Name, Year |-> l.Year,
     HousePrice |-> l.value, GrossIncome |-> r.value.v]

SameKey(l, r) == l.Code = r.Code /\ l.Name = r.Name /\ l.Year = r.Year

RECURSIVE Merge(_, _)
Merge(left, right) ==
    IF left = <<>> THEN <<>>
    ELSE LET m == SelectSeq(right, LAMBDA r : SameKey(Head(left), r))
         IN  [i \in 1..Len(m) |-> JoinRow(Head(left), m[i])] \o Merge(Tail(left), right)

\* astype(int) on the Year column: the label must spell an integer.
YearIsInt(label) == ~label.pre
AsInt(label) == label.yr

\* The order of strings on the region names in use.
NameRank(name) == IF name = "London" THEN 1 ELSE 2

\* sort_values: a stable sort by (Name, Year), or by Year alone.
KeyLE(a, b, byName) ==
    IF byName /\ NameRank(a.Name) # NameRank(b.Name)
    THEN NameRank(a.Name) < NameRank(b.Name)
    ELSE a.Year <= b.Year

RECURSIVE InsertSorted(_, _, _)
InsertSorted(r, s, byName) ==
    IF s = <<>> THEN <<r>>
    ELSE IF KeyLE(Head(s), r, byName)
         THEN <<Head(s)>> \o InsertSorted(r, Tail(s), byName)
         ELSE <<r>> \o s

RECURSIVE SortValues(_, _)
SortValues(s, byName) ==
    IF s = <<>> THEN <<>>
    ELSE InsertSorted(s[Len(s)], SortValues(SubSeq(s, 1, Len(s) - 1), byName), byName)

\* groupby('Name'): the position of the record before i in i's group, 0 if none.
GroupPrev(s, i) ==
    LET P == {j \in 1..(i - 1) : s[j].Name = s[i].Name}
    IN  IF P = {} THEN 0 ELSE SetMax(P)

\* round(groupby('Name')['HousePrice'].pct_change() * 100, 2) at position i.
GroupPctChange(s, i) ==
    IF GroupPrev(s, i) = 0 THEN NaN
    ELSE PctChange(s[GroupPrev(s, i)].HousePrice, s[i].HousePrice)

\* Lines 27-29: Year to int, the sort, and the new column.
Derive(merged) ==
    LET typed == [i \in DOMAIN merged |-> [merged[i] EXCEPT !.Year = AsInt(merged[i].Year)]]
        sorted == SortValues(typed, TRUE)
    IN  [i \in DOMAIN sorted |->
            [Code |-> sorted[i].Code, Name |-> sorted[i].Name, Year |-> sorted[i].Year,
             HousePrice |-> sorted[i].HousePrice, GrossIncome |-> sorted[i].GrossIncome,
             HousePrice_Pct_Change |-> GroupPctChange(sorted, i)]]

\* Series.between(lo, hi): both ends inclusive.
BetweenExclusive(y, lo, hi) == lo <= y /\ y < hi

Between(y, lo, hi) == lo <= y /\ y <= hi

\* Line 34: the boolean mask applied to df.
FilterRows(rows, sel, range) ==
    SelectSeq(rows, LAMBDA r : r.Name \in sel /\ Between(r.Year, range[1], range[2]))

\* A column of a table, and Series.unique() (values in order of appearance).
Col(rows, f) == [i \in DOMAIN rows |-> rows[i][f]]
PctCol(rows) == Col(rows, "HousePrice_Pct_Change")
NumCol(rows, f) == [i \in DOMAIN rows |-> Num(rows[i][f])]

Unique(s) ==
    LET first == {i \in DOMAIN s : \A j \in 1..(i - 1) : s[j] # s[i]}
        RECURSIVE Take(_)
        Take(i) == IF i > Len(s) THEN <<>>
                   ELSE (IF i \in first THEN <<s[i]>> ELSE <<>>) \o Take(i + 1)
    IN  Take(1)

Range(s) == {s[i] : i \in DOMAIN s}

\* ------------------------------------------------- the workbook's sheets
\* A sheet with the given row order, region names, label style, number of
\* year columns and cell values.
Sheet(order, nameOf, pre, ncols, cellOf) ==
    [cols |-> [j \in 1..ncols |-> [pre |-> pre, yr |-> 1999 + j]],
     rows |-> [i \in 1..Len(order) |->
                 [Code |-> order[i], Name |-> nameOf[order[i]],
                  cells |-> [j \in 1..ncols |-> cellOf[order[i]][1999 + j]]]]]

RowOrders ==
    {s \in UNION {[1..n -> Codes] : n \in 0..Cardinality(Codes)} :
        \A i, j \in DOMAIN s : i # j => s[i] # s[j]}
FullOrders == {s \in RowOrders : Len(s) = Cardinality(Codes)}
NameMaps == {f \in [Codes -> Names] : f["E1"] = "London"}

FixedPrices ==
    [c \in Codes |-> [y \in Years |->
        IF c = "E1" THEN 100 + 10 * (y - 2000) ELSE IF y = 2000 THEN 0 ELSE 50]]
IncomeOf ==
    [c \in Codes |-> [y \in Years |->
        [txt |-> (c = "E2"), v |-> (IF c = "E1" THEN 30 ELSE 20) + (y - 2000)]]]
E2Series ==
    {[y \in Years |-> 50],
     [y \in Years |-> IF y = 2000 THEN 0 ELSE 50],
     [y \in Years |-> IF y = 2000 THEN 110 ELSE IF y = 2001 THEN 100 ELSE 99]}

\* Workbooks that vary in which regions and years each sheet holds, in the
\* row order and in the style of the labels, with fixed cell values.
KeyFiles ==
    {[s1a |-> Sheet(po, nm, pp, pn, FixedPrices), s1b |-> Sheet(io, nm, ip, ic, IncomeOf)] :
        po \in RowOrders, io \in RowOrders, nm \in NameMaps,
        pp \in BOOLEAN, ip \in BOOLEAN, pn \in 1..NumYears, ic \in 1..NumYears}

\* Workbooks that vary in the prices, with both regions in both sheets.
PriceFiles ==
    {[s1a |-> Sheet(po, nm, TRUE, NumYears, [E1 |-> p1, E2 |-> p2]),
      s1b |-> Sheet(<<"E1", "E2">>, nm, FALSE, NumYears, IncomeOf)] :
        po \in FullOrders, nm \in NameMaps, p1 \in [Years -> PriceVals], p2 \in E2Series}

InputFiles == KeyFiles \cup PriceFiles

SessionFiles ==
    {[s1a |-> Sheet(<<"E1", "E2">>, nm, TRUE, pn, FixedPrices),
      s1b |-> Sheet(<<"E1", "E2">>, nm, FALSE, ic, IncomeOf)] :
        nm \in NameMaps, pn \in 1..NumYears, ic \in 1..NumYears}

\* -------------------------------------------------------------- state
VARIABLES
    xlsx,             \* the workbook on disk: its sheets 1a and 1b
    df_1a, df_1b,     \* the wide tables
    df_1a_melted, df_1b_melted,
    df,               \* the joined table with HousePrice_Pct_Change
    regions, year_range, df_filtered,
    tab1,             \* what the Trends tab displays under the first chart
    max_change_row,   \* the 'Highest % change' record
    pct_increase_df,
    metrics,          \* the three sidebar metrics
    pc,               \* the statement the script is at
    raised,           \* the line whose exception ended the run, 0 if none
    runs,             \* re-executions of the script so far
    nLoads,           \* executions of the two read_excel calls
    nPipelines,       \* executions of the reshape / join / derive lines
    completed         \* runs that reached the script's last statement

vars == <<xlsx, df_1a, df_1b, df_1a_melted, df_1b_melted, df, regions, year_range,
          df_filtered, tab1, max_change_row, pct_increase_df, metrics, pc, raised,
          runs, nLoads, nPipelines, completed>>

EmptyWide == [cols |-> <<>>, rows |-> <<>>]
NoRow == [Code |-> "", Name |-> "", Year |-> 0, HousePrice |-> 0, GrossIncome |-> 0,
          HousePrice_Pct_Change |-> NaN]
NoTab1 == [shown |-> "none", avg_pct_change |-> NaN, max_year_row |-> NoRow,
           min_year_row |-> NoRow, std_dev_change |-> NaN,
           best_region |-> "", best_avg |-> NaN, worst_region |-> "", worst_avg |-> NaN]
NoMetrics == [shown |-> 0, price |-> NaN, earnings |-> NaN, change |-> NaN]

\* The script's names before any statement has run.
Fresh ==
    /\ df_1a = EmptyWide /\ df_1b = EmptyWide
    /\ df_1a_melted = <<>> /\ df_1b_melted = <<>>
    /\ df = <<>> /\ regions = {} /\ year_range = <<0, 0>> /\ df_filtered = <<>>
    /\ tab1 = NoTab1 /\ max_change_row = NoRow /\ pct_increase_df = <<>>
    /\ metrics = NoMetrics
    /\ pc = "load" /\ raised = 0

Init ==
    /\ xlsx \in InputFiles
    /\ Fresh
    /\ runs = 0 /\ nLoads = 0 /\ nPipelines = 0 /\ completed = 0

SessionInit ==
    /\ xlsx \in SessionFiles
    /\ Fresh
    /\ runs = 0 /\ nLoads = 0 /\ nPipelines = 0 /\ completed = 0

\* Lines 16-17: read the two sheets.
Load ==
    /\ pc = "load"
    /\ df_1a' = xlsx.s1a
    /\ df_1b' = xlsx.s1b
    /\ nLoads' = nLoads + 1
    /\ pc' = "reshape"
    /\ UNCHANGED <<xlsx, completed, df_1a_melted, df_1b_melted, df, regions, year_range, df_filtered,
                   tab1, max_change_row, pct_increase_df, metrics, raised, runs, nPipelines>>

\* Lines 20-23: rename the columns of df_1a, melt both tables, income to float.
Reshape ==
    /\ pc = "reshape"
    /\ df_1a' = RenameColumns(df_1a)
    /\ df_1a_melted' = Melt(df_1a')
    /\ df_1b_melted' = MeltedIncome(df_1b)
    /\ pc' = "join"
    /\ UNCHANGED <<xlsx, completed, df_1b, df, regions, year_range, df_filtered, tab1, max_change_row,
                   pct_increase_df, metrics, raised, runs, nLoads, nPipelines>>

\* Lines 24-29: the inner join, Year to int, the sort and the percent change.
Join ==
    /\ pc = "join"
    /\ LET merged == Merge(df_1a_melted, df_1b_melted)
       IN  IF \E i \in DOMAIN merged : ~YearIsInt(merged[i].Year)
           THEN /\ pc' = "raised" /\ raised' = 27
                /\ UNCHANGED <<df, nPipelines>>
           ELSE /\ df' = Derive(merged)
                /\ nPipelines' = nPipelines + 1
                /\ pc' = "widgets"
                /\ UNCHANGED raised
    /\ UNCHANGED <<xlsx, completed, df_1a, df_1b, df_1a_melted, df_1b_melted, regions, year_range,
                   df_filtered, tab1, max_change_row, pct_increase_df, metrics, runs, nLoads>>

\* Lines 31-34: the two sidebar widgets return the user's selection (a
\* subset of the names in df, a range within df's years) and the filter is
\* applied.  int(df['Year'].min()) raises when df has no rows.
Widgets ==
    /\ pc = "widgets"
    /\ IF df = <<>>
       THEN /\ pc' = "raised" /\ raised' = 32
            /\ UNCHANGED <<regions, year_range, df_filtered>>
       ELSE LET ys == Range(Col(df, "Year"))
            IN  \E sel \in SUBSET Range(Col(df, "Name")) :
                \E lo \in SetMin(ys)..SetMax(ys) :
                \E hi \in lo..SetMax(ys) :
                    /\ regions' = sel
                    /\ year_range' = <<lo, hi>>
                    /\ df_filtered' = FilterRows(df, sel, <<lo, hi>>)
                    /\ pc' = "tab1"
                    /\ UNCHANGED raised
    /\ UNCHANGED <<xlsx, completed, df_1a, df_1b, df_1a_melted, df_1b_melted, df, tab1, max_change_row,
                   pct_increase_df, metrics, runs, nLoads, nPipelines>>

RegionRows(rows, name) == SelectSeq(rows, LAMBDA r : r.Name = name)

\* Lines 65-67: the names with the largest and the smallest mean percent
\* change among the names whose mean is not NaN ("" when there is none);
\* equal means are taken in the order of the names.
BestRegion(rows) ==
    LET g(n) == PctCol(RegionRows(rows, n))
        G == {n \in Range(Col(rows, "Name")) : Mean(g(n)).k # "nan"}
    IN  IF G = {} THEN ""
        ELSE CHOOSE n \in G : \A m \in G :
                /\ ~MeanLess(g(n), g(m))
                /\ (~MeanLess(g(m), g(n)) => NameRank(n) <= NameRank(m))

WorstRegion(rows) ==
    LET g(n) == PctCol(RegionRows(rows, n))
        G == {n \in Range(Col(rows, "Name")) : Mean(g(n)).k # "nan"}
    IN  IF G = {} THEN ""
        ELSE CHOOSE n \in G : \A m \in G :
                /\ ~MeanLess(g(m), g(n))
                /\ (~MeanLess(g(n), g(m)) => NameRank(n) <= NameRank(m))

\* Lines 40-69: the insights under the first chart of the Trends tab.
Tab1 ==
    /\ pc = "tab1"
    /\ LET pcts == PctCol(df_filtered)
       IN  IF df_filtered = <<>>
           THEN /\ tab1' = [NoTab1 EXCEPT !.shown = "warning"]
                /\ pc' = "highest"
                /\ UNCHANGED raised
           ELSE IF IdxMax(pcts) = 0
           THEN /\ pc' = "raised" /\ raised' = 53
                /\ UNCHANGED tab1
           ELSE IF Cardinality(regions) > 1 /\ BestRegion(df_filtered) = ""
           THEN /\ pc' = "raised" /\ raised' = 66
                /\ UNCHANGED tab1
           ELSE /\ tab1' =
                    [shown |-> "insights",
                     avg_pct_change |-> Mean(pcts),
                     max_year_row |-> df_filtered[IdxMax(pcts)],
                     min_year_row |-> df_filtered[IdxMin(pcts)],
                     std_dev_change |-> StdSquared(pcts),
                     best_region |-> IF Cardinality(regions) > 1
                                     THEN BestRegion(df_filtered) ELSE "",
                     best_avg |-> IF Cardinality(regions) > 1
                                  THEN Mean(PctCol(RegionRows(df_filtered, BestRegion(df_filtered))))
                                  ELSE NaN,
                     worst_region |-> IF Cardinality(regions) > 1
                                      THEN WorstRegion(df_filtered) ELSE "",
                     worst_avg |-> IF Cardinality(regions) > 1
                                   THEN Mean(PctCol(RegionRows(df_filtered, WorstRegion(df_filtered))))
                                   ELSE NaN]
                /\ pc' = "highest"
                /\ UNCHANGED raised
    /\ UNCHANGED <<xlsx, completed, df_1a, df_1b, df_1a_melted, df_1b_melted, df, regions, year_range,
                   df_filtered, max_change_row, pct_increase_df, metrics, runs, nLoads,
                   nPipelines>>

\* Line 79: the rows of the given table whose percent change equals the
\* table's maximum (no row when the maximum is NaN).
MaxChangeRows(rows) ==
    LET m == MaxV(PctCol(rows))
    IN  SelectSeq(rows, LAMBDA r : m.k # "nan" /\ r.HousePrice_Pct_Change = m)

\* Lines 72-80: the second chart and the 'Highest % change' line; iloc[0]
\* raises when no row qualifies.
Highest ==
    /\ pc = "highest"
    /\ IF MaxChangeRows(df) = <<>>
       THEN /\ pc' = "raised" /\ raised' = 80
            /\ UNCHANGED max_change_row
       ELSE /\ max_change_row' = MaxChangeRows(df)[1]
            /\ pc' = "summary"
            /\ UNCHANGED raised
    /\ UNCHANGED <<xlsx, completed, df_1a, df_1b, df_1a_melted, df_1b_melted, df, regions, year_range,
                   df_filtered, tab1, pct_increase_df, metrics, runs, nLoads, nPipelines>>

\* Lines 109-121: one summary record per region name of the filtered view.
SummaryRow(rows, region) ==
    LET region_data == SortValues(RegionRows(rows, region), FALSE)
        start_price == region_data[1].HousePrice
        end_price == region_data[Len(region_data)].HousePrice
    IN  [Region |-> region,
         StartYear |-> region_data[1].Year,
         EndYear |-> region_data[Len(region_data)].Year,
         StartPrice |-> start_price,
         EndPrice |-> end_price,
         PctChange |-> IF start_price # 0 THEN PctChange(start_price, end_price) ELSE NaN]

\* Lines 82-124: the charts of the other two tabs (no value of the script
\* changes) and the percent-increase summary.
Summary ==
    /\ pc = "summary"
    /\ LET names == Unique(Col(df_filtered, "Name"))
       IN  pct_increase_df' = [n \in DOMAIN names |-> SummaryRow(df_filtered, names[n])]
    /\ pc' = "metrics"
    /\ UNCHANGED <<xlsx, completed, df_1a, df_1b, df_1a_melted, df_1b_melted, df, regions, year_range,
                   df_filtered, tab1, max_change_row, metrics, raised, runs, nLoads,
                   nPipelines>>

\* f"{x:,.1f}" of a percentage kept in hundredths: tenths of a percent.
OneDecimal(x) == IF IsFinite(x) THEN Num(RoundDiv(x.v, 10)) ELSE x

\* Lines 126-130: the three sidebar metrics.  An empty pct_increase_df has
\* no '% Change' column (KeyError); a column of NaN has no mode (IndexError).
Metrics ==
    /\ pc = "metrics"
    /\ LET price == Mean(NumCol(df_filtered, "HousePrice"))
           earnings == Mean(NumCol(df_filtered, "GrossIncome"))
           mode == Mode0(Col(pct_increase_df, "PctChange"))
       IN  IF pct_increase_df = <<>> \/ mode.k = "nan"
           THEN /\ metrics' = [shown |-> 2, price |-> price, earnings |-> earnings,
                               change |-> NaN]
                /\ pc' = "raised" /\ raised' = 130
                /\ UNCHANGED completed
           ELSE /\ metrics' = [shown |-> 3, price |-> price, earnings |-> earnings,
                               change |-> OneDecimal(mode)]
                /\ pc' = "done"
                /\ completed' = completed + 1
                /\ UNCHANGED raised
    /\ UNCHANGED <<xlsx, df_1a, df_1b, df_1a_melted, df_1b_melted, df, regions, year_range,
                   df_filtered, tab1, max_change_row, pct_increase_df, runs, nLoads,
                   nPipelines>>

\* The user changes a widget: the script is executed again from its first
\* line, with fresh names; nothing in the script keeps a table between runs.
Interact ==
    /\ pc \in {"done", "raised"}
    /\ runs < MaxRuns
    /\ runs' = runs + 1
    /\ df_1a' = EmptyWide /\ df_1b' = EmptyWide
    /\ df_1a_melted' = <<>> /\ df_1b_melted' = <<>>
    /\ df' = <<>> /\ regions' = {} /\ year_range' = <<0, 0>> /\ df_filtered' = <<>>
    /\ tab1' = NoTab1 /\ max_change_row' = NoRow /\ pct_increase_df' = <<>>
    /\ metrics' = NoMetrics
    /\ pc' = "load" /\ raised' = 0
    /\ UNCHANGED <<xlsx, completed, nLoads, nPipelines>>

\* One execution of the script.
Run == Load \/ Reshape \/ Join \/ Widgets \/ Tab1 \/ Highest \/ Summary \/ Metrics

Next == Run

SessionNext == Run \/ Interact

Spec == Init /\ [][Next]_vars

SessionSpec == SessionInit /\ [][SessionNext]_vars

\* ------------------------------------------------------------- claims
\* Where a run of the script is.
Joined == pc \in {"widgets", "tab1", "highest", "summary", "metrics", "done"}
              \/ (pc = "raised" /\ raised > 29)
Filtered == pc \in {"tab1", "highest", "summary", "metrics", "done"}
              \/ (pc = "raised" /\ raised > 34)

\* The (Code, Name, year) keys of a sheet, a year being the number its
\* label spells, whatever the label's style.
WideKeys(t) ==
    {<<t.rows[i].Code, t.rows[i].Name, t.cols[j].yr>> : i \in DOMAIN t.rows, j \in DOMAIN t.cols}
AllPrefixed(t) == \A j \in DOMAIN t.cols : t.cols[j].pre
DfKeys == {<<df[i].Code, df[i].Name, df[i].Year>> : i \in DOMAIN df}

\* No two Codes of the joined table share a Name.
OneCodePerName == \A i, j \in DOMAIN df : df[i].Name = df[j].Name => df[i].Code = df[j].Code

\* C1: when the columns of both sheets are labelled 'Year ending Sep YYYY',
\* the joined table holds exactly one record per (Code, Name, Year) key the
\* two sheets share, and no other record.
C1_JoinCardinality ==
    (Joined /\ AllPrefixed(xlsx.s1a) /\ AllPrefixed(xlsx.s1b)) =>
        /\ Len(df) = Cardinality(WideKeys(xlsx.s1a) \cap WideKeys(xlsx.s1b))
        /\ DfKeys = WideKeys(xlsx.s1a) \cap WideKeys(xlsx.s1b)

\* The records of df before position i that carry the Name of record i.
EarlierOfName(i) == {j \in 1..(i - 1) : df[j].Name = df[i].Name}

\* C2: in the joined table the records of one region name stand in
\* ascending Year order; the first of them has an undefined percent change,
\* and every later one, whose predecessor has a price prev other than zero,
\* has the finite value nearest to (cur - prev) / prev * 100 at 2 decimals
\* (within half a hundredth).  Prices 100, 110, 99 at the head of a region
\* give undefined, 10.0, -10.0.
C2_PctChange ==
    Joined =>
        \A i \in DOMAIN df :
            LET pct == df[i].HousePrice_Pct_Change
                E == EarlierOfName(i)
            IN  /\ \A j \in E : df[j].Year <= df[i].Year
                /\ E = {} => pct = NaN
                /\ E # {} =>
                     LET prev == df[SetMax(E)].HousePrice
                         cur == df[i].HousePrice
                     IN  /\ prev # 0 =>
                              /\ pct.k = "num"
                              /\ 2 * Abs(pct.v * prev - (cur - prev) * 10000) <= Abs(prev)
                         /\ (prev = 100 /\ cur = 110) => pct = Num(1000)
                         /\ (prev = 110 /\ cur = 99) => pct = Num(-1000)

\* C2's case: a region whose prices start 100, 110, 99, with its three
\* percent changes.
C2_Witness ==
    /\ Joined
    /\ \E i \in DOMAIN df :
          /\ i + 2 \in DOMAIN df
          /\ EarlierOfName(i) = {} /\ EarlierOfName(i + 2) = {i, i + 1}
          /\ df[i].HousePrice = 100 /\ df[i + 1].HousePrice = 110 /\ df[i + 2].HousePrice = 99
          /\ df[i].HousePrice_Pct_Change = NaN
          /\ df[i + 1].HousePrice_Pct_Change = Num(1000)
          /\ df[i + 2].HousePrice_Pct_Change = Num(-1000)

\* C3: the filtered view holds exactly the records of df whose Name is
\* selected and whose Year lies in [YearMin, YearMax], both ends included,
\* each once and unchanged; with no region selected it is empty.
C3_FilteredView ==
    Filtered =>
        LET keep == {i \in DOMAIN df : /\ df[i].Name \in regions
                                       /\ year_range[1] <= df[i].Year
                                       /\ df[i].Year <= year_range[2]}
        IN  /\ Range(df_filtered) = {df[i] : i \in keep}
            /\ Len(df_filtered) = Cardinality(keep)
            /\ regions = {} => df_filtered = <<>>

\* C3's case: a view that keeps some records and drops others, with records
\* on both ends of a range of more than one year.
C3_Witness ==
    /\ Filtered
    /\ df_filtered # <<>> /\ Len(df_filtered) < Len(df)
    /\ year_range[1] < year_range[2]
    /\ \E i \in DOMAIN df_filtered : df_filtered[i].Year = year_range[1]
    /\ \E i \in DOMAIN df_filtered : df_filtered[i].Year = year_range[2]
    /\ \E i \in DOMAIN df : df[i].Name \in regions /\ df[i].Year > year_range[2]

\* C4: with no region selected the run reaches its last statement without
\* an exception (stated where the region names are distinct and df holds a
\* defined percent change, so that nothing but the empty view is in play).
C4_EmptySelectionCompletes ==
    (Filtered /\ regions = {} /\ OneCodePerName /\ MaxChangeRows(df) # <<>>) => pc # "raised"

\* C5: over a session the workbook is read once and the reshape / join /
\* derive lines run once, however many times the user changes a widget
\* (stated once a run has reached the script's last statement).
C5_LoadOnce == completed >= 1 => (nLoads <= 1 /\ nPipelines <= 1)

\* C6: after the reshape the Year of every tidy record, of the price table
\* and of the income table, is the bare year 'Y', and records of the two
\* tables that come from the same source year carry equal Year keys.
C6_PrefixStrippedBothTables ==
    (pc \notin {"load", "reshape"}) =>
        /\ \A i \in DOMAIN df_1a_melted : YearIsInt(df_1a_melted[i].Year)
        /\ \A i \in DOMAIN df_1b_melted : YearIsInt(df_1b_melted[i].Year)
        /\ \A i \in DOMAIN df_1a_melted : \A j \in DOMAIN df_1b_melted :
              df_1a_melted[i].Year.yr = df_1b_melted[j].Year.yr
                  => df_1a_melted[i].Year = df_1b_melted[j].Year

\* C7: a record whose predecessor in its region has price zero and whose
\* own price is positive has percent change +infinity, in df and in the
\* view alike, and the mean percent change displayed for a view that holds
\* such a record is not a finite number.
C7_ZeroPriorPrice ==
    /\ Joined =>
          \A i \in DOMAIN df :
              (/\ EarlierOfName(i) # {}
               /\ df[SetMax(EarlierOfName(i))].HousePrice = 0
               /\ df[i].HousePrice > 0)
                  => df[i].HousePrice_Pct_Change = Inf
    /\ (Filtered /\ tab1.shown = "insights") =>
          \A i \in DOMAIN df_filtered :
              df_filtered[i].HousePrice_Pct_Change = Inf
                  => tab1.avg_pct_change.k \in {"inf", "nan"}

\* C7's case: prices 0 then 50 in consecutive years of one region, the
\* second record in the view, and the insights displayed.
C7_Witness ==
    /\ Filtered /\ tab1.shown = "insights"
    /\ \E i \in DOMAIN df_filtered :
          /\ df_filtered[i].HousePrice = 50
          /\ df_filtered[i].HousePrice_Pct_Change = Inf
          /\ \E j \in DOMAIN df :
                /\ df[j].Name = df_filtered[i].Name
                /\ df[j].Year = df_filtered[i].Year - 1
                /\ df[j].HousePrice = 0
    /\ tab1.avg_pct_change = Inf

\* C8: the prior price used for a record's percent change is that of a
\* record with the same Code and a strictly earlier Year.
C8_NoCrossRegionMixing ==
    Joined =>
        \A i \in DOMAIN df :
            df[i].HousePrice_Pct_Change # NaN =>
                /\ df[GroupPrev(df, i)].Code = df[i].Code
                /\ df[GroupPrev(df, i)].Year < df[i].Year

\* The joined table the script derives from a workbook.
JoinedOf(x) == Derive(Merge(Melt(RenameColumns(x.s1a)), MeltedIncome(x.s1b)))

\* C9: the 'Highest % change' record is the same in every run whose
\* filtered view is the same: any other workbook and selection that give
\* this run's view give this run's record (stated for a view that is not
\* empty, of a table whose region names are distinct).
C9_DisplayDependsOnViewOnly ==
    (pc \in {"summary", "metrics", "done"} /\ df_filtered # <<>> /\ OneCodePerName) =>
        \A x \in SessionFiles :
            \A sel \in SUBSET Names : \A lo \in Years : \A hi \in lo..(1999 + NumYears) :
                (/\ MaxChangeRows(JoinedOf(x)) # <<>>
                 /\ FilterRows(JoinedOf(x), sel, <<lo, hi>>) = df_filtered)
                    => MaxChangeRows(JoinedOf(x))[1] = max_change_row

\* C10: for a filtered view that is not empty the trend insights are
\* computed and displayed.
C10_GuardSufficient ==
    (Filtered /\ pc # "tab1" /\ df_filtered # <<>>) => tab1.shown = "insights"

=============================================================================
